---- MODULE Spec2Model ----
(***************************************************************************)
(* Model of the gabagool22 arbitrage bot: the position ledger              *)
(* (position_tracker.py) and the arbitrage decision engine                 *)
(* (arbitrage_engine.py).                                                  *)
(*                                                                         *)
(* Python floats are modelled as exact rationals [n |-> numerator,         *)
(* d |-> denominator] in lowest terms with d > 0, so that equality of two  *)
(* rationals is equality of the records.  Rounding of IEEE doubles is not  *)
(* modelled; every comparison the code makes is made on the exact value.   *)
(* Trade.timestamp (datetime.now()) and the log/reason strings are not     *)
(* part of the state.                                                      *)
(***************************************************************************)
EXTENDS Integers, Sequences, FiniteSets, TLC

VARIABLES tracker, config, call, analyzer, risk, bot

vars == <<tracker, config, call, analyzer, risk, bot>>

----------------------------------------------------------------------------
(* Exact arithmetic standing for Python float arithmetic.                  *)

Abs(x) == IF x < 0 THEN -x ELSE x

RECURSIVE GCD(_, _)
GCD(a, b) == IF b = 0 THEN a ELSE GCD(b, a % b)

(* n/d in lowest terms with a positive denominator; d # 0 *)
Rat(n, d) ==
  LET g == GCD(Abs(n), Abs(d))
      s == IF d < 0 THEN -1 ELSE 1
  IN  [n |-> (s * n) \div g, d |-> (s * d) \div g]

Zero == Rat(0, 1)
One == Rat(1, 1)

RAdd(a, b) == Rat(a.n * b.d + b.n * a.d, a.d * b.d)
RSub(a, b) == Rat(a.n * b.d - b.n * a.d, a.d * b.d)
RMul(a, b) == Rat(a.n * b.n, a.d * b.d)
(* a / b, for b # 0 *)
RDiv(a, b) == Rat(a.n * b.d, a.d * b.n)
RLt(a, b) == a.n * b.d < b.n * a.d
RLe(a, b) == a.n * b.d <= b.n * a.d
(* a < b with the denominators' common factor cancelled before the cross   *)
(* products are taken, for operands with large denominators                *)
RLess(a, b) == a.n * (b.d \div GCD(a.d, b.d)) < b.n * (a.d \div GCD(a.d, b.d))
RMin(a, b) == IF RLe(a, b) THEN a ELSE b
RMax(a, b) == IF RLe(a, b) THEN b ELSE a

----------------------------------------------------------------------------
(* Bounds and input sets.                                                  *)

(* at most this many fills are recorded in one window *)
MaxFills == 2

(* quantities a caller passes to add_*_trade; the code accepts any float,  *)
(* so a negative one is included                                           *)
Quantities == {Rat(-25, 1), Rat(25, 1), Rat(100, 1)}

(* prices a caller passes to add_*_trade *)
Prices == {Rat(0, 1), Rat(1, 5), Rat(2, 5), Rat(11, 20)}

(* fills an exchange reports: positive quantities at positive prices *)
FillQuantities == {Rat(25, 1), Rat(100, 1)}
FillPrices == {Rat(1, 5), Rat(2, 5), Rat(11, 20)}

(* asks for the choice between two candidates; two of them are 0.001 apart *)
TieAsks == {Rat(1, 5), Rat(2, 5), Rat(401, 1000), Rat(11, 20), Rat(3, 5)}

(* quantities and prices a caller passes to simulate_*_trade *)
SimQuantities == {Rat(-25, 1), Rat(0, 1), Rat(25, 1)}
SimPrices == {Rat(2, 5), Rat(3, 5)}

(* best asks quoted to the engine, in [0, 1] *)
Asks == {Rat(0, 1), Rat(1, 5), Rat(2, 5), Rat(11, 20), Rat(3, 5)}

(* asks passed to get_trade_recommendation *)
RecAsks == {Rat(2, 5), Rat(11, 20)}

(* BotConfig: the trading parameters the engine copies in __init__ *)
Configs ==
  { [max_pair_cost |-> Rat(99, 100), max_trade_amount |-> Rat(10, 1),
     max_total_exposure |-> Rat(50, 1), min_profit_target |-> Rat(5, 1)] }

(* run_simulation's configuration, with the exposure limit of the bot *)
SimConfigs ==
  { [max_pair_cost |-> Rat(99, 100), max_trade_amount |-> Rat(10, 1),
     max_total_exposure |-> Rat(1000, 1), min_profit_target |-> Rat(5, 1)] }

(* asks of the simulated market's ticks *)
SimAsks == {Rat(19, 50), Rat(2, 5), Rat(9, 20), Rat(11, 20), Rat(3, 5)}

(* price observations (yes_price, no_price) handed to the analyzer; the    *)
(* second one sums to exactly 0.99                                         *)
Observations ==
  { <<Rat(0, 1), Rat(2, 5)>>, <<Rat(11, 20), Rat(11, 25)>>,
    <<Rat(9, 20), Rat(2, 5)>>, <<Rat(9, 10), Rat(1, 20)>> }

(* prices asked of is_yes_cheap and is_no_cheap *)
CheapPrices == {Rat(0, 1), Rat(2, 5), Rat(9, 20), Rat(11, 20)}

(* capitals passed to set_initial_capital *)
Capitals == {Rat(-100, 1), Rat(0, 1), Rat(100, 1), Rat(1000, 1)}

(* arguments of update_exposure: yes_qty, yes_cost, no_qty, no_cost,       *)
(* yes_price, no_price; they give an unrealized_pnl of 0, -50, -50.01,     *)
(* -95, -105, -20 and 20                                                   *)
Exposures ==
  { <<Rat(100, 1), Rat(40, 1), Rat(100, 1), Rat(40, 1), Rat(2, 5), Rat(2, 5)>>,
    <<Rat(100, 1), Rat(50, 1), Rat(0, 1), Rat(0, 1), Rat(0, 1), Rat(1, 1)>>,
    <<Rat(100, 1), Rat(5001, 100), Rat(0, 1), Rat(0, 1), Rat(0, 1), Rat(1, 1)>>,
    <<Rat(100, 1), Rat(95, 1), Rat(0, 1), Rat(0, 1), Rat(0, 1), Rat(1, 1)>>,
    <<Rat(100, 1), Rat(55, 1), Rat(100, 1), Rat(50, 1), Rat(0, 1), Rat(0, 1)>>,
    <<Rat(100, 1), Rat(60, 1), Rat(100, 1), Rat(40, 1), Rat(2, 5), Rat(2, 5)>>,
    <<Rat(100, 1), Rat(30, 1), Rat(100, 1), Rat(30, 1), Rat(2, 5), Rat(2, 5)>> }

(* costs and quantities passed to can_add_position; the quantities differ *)
(* by 0, 100, 200, 200.5, 300 and 300.5                                    *)
NewCosts == {Rat(0, 1), Rat(10, 1), Rat(1000, 1)}
HeldQuantities == {Rat(0, 1), Rat(100, 1), Rat(300, 1), Rat(601, 2)}

----------------------------------------------------------------------------
(* position_tracker.py                                                     *)

(* Trade, with cost recomputed by __post_init__ *)
Trade(side, quantity, price) ==
  [side |-> side, quantity |-> quantity, price |-> price,
   cost |-> RMul(quantity, price)]

(* Position() *)
Position == [quantity |-> Zero, total_cost |-> Zero, trades |-> <<>>]

(* PositionTracker() *)
PositionTracker == [yes_position |-> Position, no_position |-> Position]

(* Position.average_price *)
average_price(pos) ==
  IF pos.quantity = Zero THEN Zero ELSE RDiv(pos.total_cost, pos.quantity)

(* Position.add_trade with the side the caller sets on the returned trade: *)
(* no validation of quantity or price is made                              *)
(* faulty variant: the quantity is charged as the cost of the fill *)
add_trade_charging_quantity(pos, side, quantity, price) ==
  LET trade == Trade(side, quantity, price)
  IN  [self |-> [quantity |-> RAdd(pos.quantity, quantity),
                 total_cost |-> RAdd(pos.total_cost, quantity),
                 trades |-> Append(pos.trades, trade)],
       ret |-> trade]

add_trade(pos, side, quantity, price) ==
  LET trade == Trade(side, quantity, price)
  IN  [self |-> [quantity |-> RAdd(pos.quantity, quantity),
                 total_cost |-> RAdd(pos.total_cost, trade.cost),
                 trades |-> Append(pos.trades, trade)],
       ret |-> trade]

pair_cost(t) ==
  RAdd(average_price(t.yes_position), average_price(t.no_position))

(* faulty variant: the NO side's cost is left out of the total *)
total_cost_yes_only(t) == t.yes_position.total_cost

total_cost(t) == RAdd(t.yes_position.total_cost, t.no_position.total_cost)

min_quantity(t) == RMin(t.yes_position.quantity, t.no_position.quantity)

quantity_imbalance(t) == RSub(t.yes_position.quantity, t.no_position.quantity)

balance_ratio(t) ==
  IF t.yes_position.quantity = Zero \/ t.no_position.quantity = Zero
  THEN Zero
  ELSE RDiv(RMin(t.yes_position.quantity, t.no_position.quantity),
            RMax(t.yes_position.quantity, t.no_position.quantity))

(* faulty variant: the whole cost is charged, not the hedged portion's *)
locked_profit_total_cost(t) ==
  IF RMin(t.yes_position.quantity, t.no_position.quantity) = Zero
  THEN Zero
  ELSE RSub(RMin(t.yes_position.quantity, t.no_position.quantity),
            RAdd(t.yes_position.total_cost, t.no_position.total_cost))

locked_profit(t) ==
  IF min_quantity(t) = Zero
  THEN Zero
  ELSE LET hedged_cost ==
             RMul(RAdd(average_price(t.yes_position),
                       average_price(t.no_position)),
                  min_quantity(t))
           hedged_payout == min_quantity(t)
       IN  RSub(hedged_payout, hedged_cost)

(* PositionTracker.max_potential_profit: the payout of the larger side     *)
(* less the whole cost                                                     *)
max_potential_profit(t) ==
  IF RLe(t.no_position.quantity, t.yes_position.quantity)
  THEN RSub(t.yes_position.quantity, total_cost(t))
  ELSE RSub(t.no_position.quantity, total_cost(t))

(* faulty variant: the payout of the larger side is taken *)
min_potential_profit_larger_side(t) ==
  IF RLe(t.no_position.quantity, t.yes_position.quantity)
  THEN RSub(t.yes_position.quantity, total_cost(t))
  ELSE RSub(t.no_position.quantity, total_cost(t))

(* PositionTracker.min_potential_profit: the payout of the smaller side    *)
(* less the whole cost                                                     *)
min_potential_profit(t) ==
  IF RLe(t.no_position.quantity, t.yes_position.quantity)
  THEN RSub(t.no_position.quantity, total_cost(t))
  ELSE RSub(t.yes_position.quantity, total_cost(t))

(* PositionTracker.add_yes_trade: the tracker after the call and the trade *)
add_yes_trade(t, quantity, price) ==
  LET r == add_trade(t.yes_position, "YES", quantity, price)
  IN  [self |-> [t EXCEPT !.yes_position = r.self], ret |-> r.ret]

add_no_trade(t, quantity, price) ==
  LET r == add_trade(t.no_position, "NO", quantity, price)
  IN  [self |-> [t EXCEPT !.no_position = r.self], ret |-> r.ret]

simulate_yes_trade(t, quantity, price) ==
  LET new_qty == RAdd(t.yes_position.quantity, quantity)
      new_cost == RAdd(t.yes_position.total_cost, RMul(quantity, price))
      new_avg_yes == IF RLt(Zero, new_qty) THEN RDiv(new_cost, new_qty) ELSE Zero
  IN  RAdd(new_avg_yes, average_price(t.no_position))

simulate_no_trade(t, quantity, price) ==
  LET new_qty == RAdd(t.no_position.quantity, quantity)
      new_cost == RAdd(t.no_position.total_cost, RMul(quantity, price))
      new_avg_no == IF RLt(Zero, new_qty) THEN RDiv(new_cost, new_qty) ELSE Zero
  IN  RAdd(average_price(t.yes_position), new_avg_no)

(* PositionTracker.reset: the tracker after the call *)
reset(t) == [yes_position |-> Position, no_position |-> Position]

----------------------------------------------------------------------------
(* arbitrage_engine.py                                                     *)

(* What a call hands back: Python's None, a raised exception, a value *)
None == [kind |-> "None"]
Raise(exc) == [kind |-> "raise", exc |-> exc]
Value(v) == [kind |-> "value", val |-> v]

TradeSignal(side, price, quantity, projected_pair_cost) ==
  [kind |-> "TradeSignal", side |-> side, price |-> price,
   quantity |-> quantity, projected_pair_cost |-> projected_pair_cost]

(* faulty variant: the budget is returned without dividing by the price *)
_calculate_quantity_as_budget(cfg, t, price) ==
  LET remaining_budget == RSub(cfg.max_total_exposure, total_cost(t))
      trade_budget == RMin(cfg.max_trade_amount, remaining_budget)
  IN  IF RLe(trade_budget, Zero) THEN Value(Zero)
      ELSE IF price = Zero THEN Raise("ZeroDivisionError")
      ELSE Value(trade_budget)

(* faulty variant: the budget left under the exposure limit is not looked  *)
(* at until it is used up                                                  *)
_calculate_quantity_full_amount(cfg, t, price) ==
  LET remaining_budget == RSub(cfg.max_total_exposure, total_cost(t))
      trade_budget == cfg.max_trade_amount
  IN  IF RLe(remaining_budget, Zero) THEN Value(Zero)
      ELSE IF price = Zero THEN Raise("ZeroDivisionError")
      ELSE Value(RDiv(trade_budget, price))

(* faulty variant: half of the trade budget is spent *)
_calculate_quantity_half_budget(cfg, t, price) ==
  LET remaining_budget == RSub(cfg.max_total_exposure, total_cost(t))
      trade_budget == RMin(cfg.max_trade_amount, remaining_budget)
  IN  IF RLe(trade_budget, Zero) THEN Value(Zero)
      ELSE IF price = Zero THEN Raise("ZeroDivisionError")
      ELSE Value(RDiv(trade_budget, RMul(Rat(2, 1), price)))

(* ArbitrageEngine._calculate_quantity: Python's float division raises     *)
(* ZeroDivisionError on a price of 0                                       *)
_calculate_quantity(cfg, t, price) ==
  LET remaining_budget == RSub(cfg.max_total_exposure, total_cost(t))
      trade_budget == RMin(cfg.max_trade_amount, remaining_budget)
  IN  IF RLe(trade_budget, Zero) THEN Value(Zero)
      ELSE IF price = Zero THEN Raise("ZeroDivisionError")
      ELSE Value(RDiv(trade_budget, price))

(* faulty variant: the projected pair cost is not held to max_pair_cost *)
_evaluate_yes_buy_no_limit(cfg, t, yes_price, no_price) ==
  LET q == _calculate_quantity(cfg, t, yes_price)
  IN  IF q.kind = "raise" THEN q
      ELSE IF RLe(q.val, Zero) THEN None
      ELSE IF /\ RLt(Zero, t.no_position.quantity)
              /\ RLe(RSub(One, average_price(t.no_position)), yes_price)
           THEN None
      ELSE TradeSignal("YES", yes_price, q.val,
                       simulate_yes_trade(t, q.val, yes_price))

(* ArbitrageEngine._evaluate_yes_buy *)
_evaluate_yes_buy(cfg, t, yes_price, no_price) ==
  LET q == _calculate_quantity(cfg, t, yes_price)
  IN  IF q.kind = "raise" THEN q
      ELSE IF RLe(q.val, Zero) THEN None
      ELSE LET projected_pair_cost == simulate_yes_trade(t, q.val, yes_price)
           IN  IF RLt(cfg.max_pair_cost, projected_pair_cost) THEN None
               ELSE IF /\ RLt(Zero, t.no_position.quantity)
                       /\ RLe(RSub(One, average_price(t.no_position)), yes_price)
                    THEN None
               ELSE TradeSignal("YES", yes_price, q.val, projected_pair_cost)

(* faulty variant: the implied ceiling 1 - yes average is not applied *)
_evaluate_no_buy_no_ceiling(cfg, t, yes_price, no_price) ==
  LET q == _calculate_quantity(cfg, t, no_price)
  IN  IF q.kind = "raise" THEN q
      ELSE IF RLe(q.val, Zero) THEN None
      ELSE LET projected_pair_cost == simulate_no_trade(t, q.val, no_price)
           IN  IF RLt(cfg.max_pair_cost, projected_pair_cost) THEN None
               ELSE TradeSignal("NO", no_price, q.val, projected_pair_cost)

(* ArbitrageEngine._evaluate_no_buy *)
_evaluate_no_buy(cfg, t, yes_price, no_price) ==
  LET q == _calculate_quantity(cfg, t, no_price)
  IN  IF q.kind = "raise" THEN q
      ELSE IF RLe(q.val, Zero) THEN None
      ELSE LET projected_pair_cost == simulate_no_trade(t, q.val, no_price)
           IN  IF RLt(cfg.max_pair_cost, projected_pair_cost) THEN None
               ELSE IF /\ RLt(Zero, t.yes_position.quantity)
                       /\ RLe(RSub(One, average_price(t.yes_position)), no_price)
                    THEN None
               ELSE TradeSignal("NO", no_price, q.val, projected_pair_cost)

(* faulty variant: the side the ledger already holds more of is preferred *)
_prefer_balancing_side_heavier(t, yes_signal, no_signal) ==
  LET imbalance == quantity_imbalance(t)
  IN  IF RLt(Zero, imbalance) THEN yes_signal
      ELSE IF RLt(imbalance, Zero) THEN no_signal
      ELSE IF RLt(yes_signal.price, no_signal.price) THEN yes_signal
      ELSE no_signal

(* ArbitrageEngine._prefer_balancing_side *)
_prefer_balancing_side(t, yes_signal, no_signal) ==
  LET imbalance == quantity_imbalance(t)
  IN  IF RLt(Zero, imbalance) THEN no_signal
      ELSE IF RLt(imbalance, Zero) THEN yes_signal
      ELSE IF RLt(yes_signal.price, no_signal.price) THEN yes_signal
      ELSE no_signal

(* faulty variant: the balance ratio is not looked at *)
_is_profit_locked_ignoring_balance(cfg, t) ==
  RLe(cfg.min_profit_target, locked_profit(t))

(* ArbitrageEngine._is_profit_locked *)
_is_profit_locked(cfg, t) ==
  /\ RLe(cfg.min_profit_target, locked_profit(t))
  /\ RLe(Rat(8, 10), balance_ratio(t))

(* ArbitrageEngine.analyze_opportunity, lines 86-106: both sides are       *)
(* evaluated and the better candidate is chosen                            *)
choose_opportunity(cfg, t, yes_price, no_price) ==
  LET yes_signal == _evaluate_yes_buy(cfg, t, yes_price, no_price)
  IN  IF yes_signal.kind = "raise" THEN yes_signal
      ELSE LET no_signal == _evaluate_no_buy(cfg, t, yes_price, no_price)
           IN  IF no_signal.kind = "raise" THEN no_signal
               ELSE IF yes_signal # None /\ no_signal # None
               THEN IF RLess(yes_signal.projected_pair_cost,
                           RSub(no_signal.projected_pair_cost, Rat(1, 1000)))
                    THEN yes_signal
                    ELSE IF RLess(no_signal.projected_pair_cost,
                                RSub(yes_signal.projected_pair_cost, Rat(1, 1000)))
                    THEN no_signal
                    ELSE _prefer_balancing_side(t, yes_signal, no_signal)
               ELSE IF yes_signal # None THEN yes_signal ELSE no_signal

(* faulty variant: a market pair cost of exactly 1.0 is let through *)
analyze_opportunity_strict_sum(cfg, t, yes_price, no_price) ==
  IF RLe(cfg.max_total_exposure, total_cost(t)) THEN None
  ELSE IF _is_profit_locked(cfg, t) THEN None
  ELSE IF RLt(One, RAdd(yes_price, no_price)) THEN None
  ELSE choose_opportunity(cfg, t, yes_price, no_price)

(* ArbitrageEngine.analyze_opportunity: None, a TradeSignal, or the        *)
(* exception that escapes it                                               *)
analyze_opportunity(cfg, t, yes_price, no_price) ==
  IF RLe(cfg.max_total_exposure, total_cost(t)) THEN None
  ELSE IF _is_profit_locked(cfg, t) THEN None
  ELSE IF RLe(One, RAdd(yes_price, no_price)) THEN None
  ELSE choose_opportunity(cfg, t, yes_price, no_price)

(* ArbitrageEngine.get_trade_recommendation: the dict it returns *)
get_trade_recommendation(cfg, t, yes_price, no_price) ==
  LET signal == analyze_opportunity(cfg, t, yes_price, no_price)
  IN  IF signal.kind = "raise" THEN signal
      ELSE IF signal = None
      THEN [kind |-> "dict", action |-> "HOLD",
            market_pair_cost |-> RAdd(yes_price, no_price),
            our_pair_cost |-> pair_cost(t),
            locked_profit |-> locked_profit(t)]
      ELSE [kind |-> "dict", action |-> "BUY_" \o signal.side,
            price |-> signal.price, quantity |-> signal.quantity,
            cost |-> RMul(signal.price, signal.quantity),
            projected_pair_cost |-> signal.projected_pair_cost,
            market_pair_cost |-> RAdd(yes_price, no_price),
            current_pair_cost |-> pair_cost(t)]

(* ArbitrageEngine.calculate_optimal_prices: the dict it returns *)
calculate_optimal_prices(cfg, t) ==
  IF total_cost(t) = Zero
  THEN [kind |-> "dict",
        max_yes_price |-> RDiv(cfg.max_pair_cost, Rat(2, 1)),
        max_no_price |-> RDiv(cfg.max_pair_cost, Rat(2, 1))]
  ELSE LET max_yes == IF RLt(Zero, t.no_position.quantity)
                      THEN RMin(RSub(cfg.max_pair_cost, average_price(t.no_position)),
                                Rat(95, 100))
                      ELSE cfg.max_pair_cost
           max_no == IF RLt(Zero, t.yes_position.quantity)
                     THEN RMin(RSub(cfg.max_pair_cost, average_price(t.yes_position)),
                               Rat(95, 100))
                     ELSE cfg.max_pair_cost
       IN  [kind |-> "dict",
            max_yes_price |-> RMax(max_yes, Rat(1, 100)),
            max_no_price |-> RMax(max_no, Rat(1, 100))]

----------------------------------------------------------------------------
(* The price analyzer and the risk manager (price_analyzer.py).            *)

(* the samples a PriceAnalyzer retains per set *)
WindowSize == 5

(* a deque(maxlen = window_size) is a sequence of at most window_size items *)
PriceAnalyzer(window_size) ==
  [window_size |-> window_size,
   yes_prices |-> <<>>, no_prices |-> <<>>, pair_costs |-> <<>>,
   cheap_threshold |-> Rat(15, 100),
   volatility_threshold |-> Rat(5, 100),
   max_pair_cost |-> Rat(99, 100)]

RiskManager(max_loss_per_window, max_drawdown_pct, max_unhedged_exposure) ==
  [max_loss_per_window |-> max_loss_per_window,
   max_drawdown_pct |-> max_drawdown_pct,
   max_unhedged_exposure |-> max_unhedged_exposure,
   initial_capital |-> Zero,
   current_exposure |-> Zero,
   unrealized_pnl |-> Zero]

(* faulty variant: at capacity the new item is the one that is dropped *)
DequeAppend_dropping_newest(dq, maxlen, x) ==
  IF Len(dq) < maxlen THEN Append(dq, x) ELSE dq

(* deque.append on a deque with maxlen: at capacity the oldest item goes *)
DequeAppend(dq, maxlen, x) ==
  IF maxlen = 0 THEN <<>>
  ELSE IF Len(dq) < maxlen THEN Append(dq, x)
  ELSE Append(Tail(dq), x)

(* PriceAnalyzer.add_price *)
add_price(self, yes_price, no_price) ==
  [self EXCEPT
     !.yes_prices = DequeAppend(self.yes_prices, self.window_size, yes_price),
     !.no_prices = DequeAppend(self.no_prices, self.window_size, no_price),
     !.pair_costs = DequeAppend(self.pair_costs, self.window_size,
                                RAdd(yes_price, no_price))]

(* a + b over the least common denominator, for the sums of many samples *)
RPlus(a, b) ==
  Rat(a.n * (b.d \div GCD(a.d, b.d)) + b.n * (a.d \div GCD(a.d, b.d)),
      (a.d \div GCD(a.d, b.d)) * b.d)

RECURSIVE RSum(_)
RSum(xs) == IF xs = <<>> THEN Zero ELSE RPlus(Head(xs), RSum(Tail(xs)))

(* statistics.mean of a non-empty sequence *)
Mean(xs) == RDiv(RSum(xs), Rat(Len(xs), 1))

RECURSIVE SumSquares(_, _)
SumSquares(xs, m) ==
  IF xs = <<>> THEN Zero
  ELSE RPlus(RMul(RSub(Head(xs), m), RSub(Head(xs), m)), SumSquares(Tail(xs), m))

(* the square of statistics.stdev: the sample variance of two or more      *)
(* values.  The standard deviation itself is irrational in general; the    *)
(* code only compares it with a threshold, and s >= t iff s*s >= t*t for   *)
(* s, t >= 0.                                                              *)
Variance(xs) == RDiv(SumSquares(xs, Mean(xs)), Rat(Len(xs) - 1, 1))

(* PriceAnalyzer.yes_average, no_average *)
yes_average(self) ==
  IF self.yes_prices = <<>> THEN Rat(5, 10) ELSE Mean(self.yes_prices)
no_average(self) ==
  IF self.no_prices = <<>> THEN Rat(5, 10) ELSE Mean(self.no_prices)

(* the square of PriceAnalyzer.yes_volatility, no_volatility *)
yes_volatility_squared(self) ==
  IF Len(self.yes_prices) < 2 THEN Zero ELSE Variance(self.yes_prices)
no_volatility_squared(self) ==
  IF Len(self.no_prices) < 2 THEN Zero ELSE Variance(self.no_prices)

(* the pair (is_cheap, discount) that is_yes_cheap and is_no_cheap return *)
Cheapness(is_cheap, discount) ==
  [kind |-> "tuple", is_cheap |-> is_cheap, discount |-> discount]

(* faulty variant: five samples still count as too few *)
is_yes_cheap_five_too_few(self, current_yes) ==
  IF Len(self.yes_prices) <= 5
  THEN Cheapness(RLt(current_yes, Rat(45, 100)), Zero)
  ELSE LET avg == yes_average(self)
       IN  IF avg = Zero THEN Cheapness(FALSE, Zero)
           ELSE LET discount == RDiv(RSub(avg, current_yes), avg)
                IN  Cheapness(/\ RLe(self.cheap_threshold, discount)
                              /\ RLe(RMul(self.volatility_threshold,
                                          self.volatility_threshold),
                                     yes_volatility_squared(self)),
                              discount)

(* PriceAnalyzer.is_yes_cheap *)
is_yes_cheap(self, current_yes) ==
  IF Len(self.yes_prices) < 5
  THEN Cheapness(RLt(current_yes, Rat(45, 100)), Zero)
  ELSE LET avg == yes_average(self)
       IN  IF avg = Zero THEN Cheapness(FALSE, Zero)
           ELSE LET discount == RDiv(RSub(avg, current_yes), avg)
                IN  Cheapness(/\ RLe(self.cheap_threshold, discount)
                              /\ RLe(RMul(self.volatility_threshold,
                                          self.volatility_threshold),
                                     yes_volatility_squared(self)),
                              discount)

(* faulty variant: a discount makes NO cheap whatever the volatility is *)
is_no_cheap_discount_alone(self, current_no) ==
  IF Len(self.no_prices) < 5
  THEN Cheapness(RLt(current_no, Rat(45, 100)), Zero)
  ELSE LET avg == no_average(self)
       IN  IF avg = Zero THEN Cheapness(FALSE, Zero)
           ELSE LET discount == RDiv(RSub(avg, current_no), avg)
                IN  Cheapness(RLe(self.cheap_threshold, discount), discount)

(* PriceAnalyzer.is_no_cheap *)
is_no_cheap(self, current_no) ==
  IF Len(self.no_prices) < 5
  THEN Cheapness(RLt(current_no, Rat(45, 100)), Zero)
  ELSE LET avg == no_average(self)
       IN  IF avg = Zero THEN Cheapness(FALSE, Zero)
           ELSE LET discount == RDiv(RSub(avg, current_no), avg)
                IN  Cheapness(/\ RLe(self.cheap_threshold, discount)
                              /\ RLe(RMul(self.volatility_threshold,
                                          self.volatility_threshold),
                                     no_volatility_squared(self)),
                              discount)

(* the dict get_opportunity returns *)
Opportunity(self, side, price, discount, sum) ==
  [kind |-> "dict", side |-> side, price |-> price, discount |-> discount,
   confidence |-> RMin(RDiv(discount, self.cheap_threshold), Rat(2, 1)),
   pair_cost |-> sum]

(* faulty variant: the observation is recorded before the guard is looked at *)
get_opportunity_recording_first(self, yes_price, no_price) ==
  LET sum == RAdd(yes_price, no_price)
      recorded == add_price(self, yes_price, no_price)
      yes == is_yes_cheap(recorded, yes_price)
      no == is_no_cheap(recorded, no_price)
  IN  IF RLe(self.max_pair_cost, sum) THEN [self |-> recorded, ret |-> None]
      ELSE [self |-> recorded,
            ret |-> IF yes.is_cheap /\ no.is_cheap
                    THEN IF RLt(no.discount, yes.discount)
                         THEN Opportunity(self, "YES", yes_price, yes.discount, sum)
                         ELSE Opportunity(self, "NO", no_price, no.discount, sum)
                    ELSE IF yes.is_cheap
                    THEN Opportunity(self, "YES", yes_price, yes.discount, sum)
                    ELSE IF no.is_cheap
                    THEN Opportunity(self, "NO", no_price, no.discount, sum)
                    ELSE None]

(* PriceAnalyzer.get_opportunity: the analyzer it leaves and what it       *)
(* returns                                                                 *)
get_opportunity(self, yes_price, no_price) ==
  LET sum == RAdd(yes_price, no_price)
      recorded == add_price(self, yes_price, no_price)
      yes == is_yes_cheap(recorded, yes_price)
      no == is_no_cheap(recorded, no_price)
  IN  IF RLe(self.max_pair_cost, sum) THEN [self |-> self, ret |-> None]
      ELSE [self |-> recorded,
            ret |-> IF yes.is_cheap /\ no.is_cheap
                    THEN IF RLt(no.discount, yes.discount)
                         THEN Opportunity(self, "YES", yes_price, yes.discount, sum)
                         ELSE Opportunity(self, "NO", no_price, no.discount, sum)
                    ELSE IF yes.is_cheap
                    THEN Opportunity(self, "YES", yes_price, yes.discount, sum)
                    ELSE IF no.is_cheap
                    THEN Opportunity(self, "NO", no_price, no.discount, sum)
                    ELSE None]

(* PriceAnalyzer.reset *)
analyzer_reset(self) ==
  [self EXCEPT !.yes_prices = <<>>, !.no_prices = <<>>, !.pair_costs = <<>>]

(* RiskManager() with the defaults of its constructor *)
DefaultRiskManager == RiskManager(Rat(50, 1), Rat(10, 100), Rat(200, 1))

(* the risk managers of the runs: the one of the bot, which passes the     *)
(* defaults, and one with a loss limit above its drawdown limit            *)
RiskManagers ==
  { DefaultRiskManager, RiskManager(Rat(200, 1), Rat(10, 100), Rat(200, 1)) }

(* RiskManager.set_initial_capital *)
set_initial_capital(self, capital) == [self EXCEPT !.initial_capital = capital]

(* RiskManager.update_exposure *)
update_exposure(self, yes_qty, yes_cost, no_qty, no_cost, yes_price, no_price) ==
  LET cost == RAdd(yes_cost, no_cost)
      yes_value == RMul(yes_qty, yes_price)
      no_value == RMul(no_qty, no_price)
      current_value == RAdd(yes_value, no_value)
  IN  [self EXCEPT !.current_exposure = cost,
                   !.unrealized_pnl = RSub(current_value, cost)]

(* the pair (flag, reason) that should_stop_trading and can_add_position   *)
(* return; the reason is the text before the formatted number              *)
Decision(flag, reason) == [kind |-> "tuple", flag |-> flag, reason |-> reason]

(* faulty variant: a loss of exactly max_loss_per_window stops trading *)
should_stop_trading_at_limit(self) ==
  IF RLe(self.unrealized_pnl, RSub(Zero, self.max_loss_per_window))
  THEN Decision(TRUE, "Max loss reached")
  ELSE IF /\ RLt(Zero, self.initial_capital)
          /\ RLt(self.max_drawdown_pct,
                 RDiv(RSub(Zero, self.unrealized_pnl), self.initial_capital))
  THEN Decision(TRUE, "Max drawdown reached")
  ELSE Decision(FALSE, "")

(* faulty variant: the drawdown is looked at before the loss limit *)
should_stop_trading_drawdown_first(self) ==
  IF /\ RLt(Zero, self.initial_capital)
     /\ RLt(self.max_drawdown_pct,
            RDiv(RSub(Zero, self.unrealized_pnl), self.initial_capital))
  THEN Decision(TRUE, "Max drawdown reached")
  ELSE IF RLt(self.unrealized_pnl, RSub(Zero, self.max_loss_per_window))
  THEN Decision(TRUE, "Max loss reached")
  ELSE Decision(FALSE, "")

(* faulty variant: the drawdown is not looked at *)
should_stop_trading_no_drawdown(self) ==
  IF RLt(self.unrealized_pnl, RSub(Zero, self.max_loss_per_window))
  THEN Decision(TRUE, "Max loss reached")
  ELSE Decision(FALSE, "")

(* RiskManager.should_stop_trading *)
should_stop_trading(self) ==
  IF RLt(self.unrealized_pnl, RSub(Zero, self.max_loss_per_window))
  THEN Decision(TRUE, "Max loss reached")
  ELSE IF /\ RLt(Zero, self.initial_capital)
          /\ RLt(self.max_drawdown_pct,
                 RDiv(RSub(Zero, self.unrealized_pnl), self.initial_capital))
  THEN Decision(TRUE, "Max drawdown reached")
  ELSE Decision(FALSE, "")

(* faulty variant: the cost of the new position counts as unhedged *)
can_add_position_counting_cost(self, new_cost, current_yes_qty, current_no_qty) ==
  LET diff == RSub(current_yes_qty, current_no_qty)
      qty_diff == IF RLt(diff, Zero) THEN RSub(Zero, diff) ELSE diff
  IN  IF RLt(self.max_unhedged_exposure, RAdd(qty_diff, new_cost))
      THEN Decision(FALSE, "Unhedged exposure too high")
      ELSE Decision(TRUE, "")

(* RiskManager.can_add_position *)
can_add_position(self, new_cost, current_yes_qty, current_no_qty) ==
  LET diff == RSub(current_yes_qty, current_no_qty)
      qty_diff == IF RLt(diff, Zero) THEN RSub(Zero, diff) ELSE diff
  IN  IF RLt(self.max_unhedged_exposure, qty_diff)
      THEN Decision(FALSE, "Unhedged exposure too high")
      ELSE Decision(TRUE, "")

(* faulty variant: the reset clears the initial capital as well *)
risk_reset_clearing_capital(self) ==
  [self EXCEPT !.current_exposure = Zero, !.unrealized_pnl = Zero,
               !.initial_capital = Zero]

(* RiskManager.reset *)
risk_reset(self) ==
  [self EXCEPT !.current_exposure = Zero, !.unrealized_pnl = Zero]

----------------------------------------------------------------------------
(* The state machine: a single-threaded caller of the ledger and of the    *)
(* engine.  `call` holds the call that has just been made, with its        *)
(* arguments and what it returned, until the caller goes on (Return); one  *)
(* call is made at a time.                                                 *)

NoCall == [op |-> "none", args |-> <<>>, ret |-> None]

(* GabagoolBot.__init__: the bot before start().  pc is the position of    *)
(* the bot's coroutine, market the index of current_market (0 for None),   *)
(* remaining the minutes_remaining of that market in whole units, stopped  *)
(* the markets one of whose windows ended by a risk stop or a profit lock, *)
(* event what the last step did, ordered whether it called                 *)
(* place_limit_order, and stdout_ok whether print() still succeeds.        *)
GabagoolBot ==
  [pc |-> "start", running |-> FALSE, connected |-> FALSE, market |-> 0,
   remaining |-> 0, stopped |-> {}, event |-> "none", ordered |-> FALSE,
   stdout_ok |-> TRUE]

NumFills == Len(tracker.yes_position.trades) + Len(tracker.no_position.trades)

Init ==
  /\ tracker = PositionTracker
  /\ config \in Configs
  /\ call = NoCall
  /\ analyzer = PriceAnalyzer(WindowSize)
  /\ risk = DefaultRiskManager
  /\ bot = GabagoolBot

AddYesTrade(quantity, price) ==
  /\ call = NoCall
  /\ NumFills < MaxFills
  /\ tracker' = add_yes_trade(tracker, quantity, price).self
  /\ call' = [op |-> "add_yes_trade", args |-> <<quantity, price>>,
              ret |-> add_yes_trade(tracker, quantity, price).ret]
  /\ UNCHANGED <<config, analyzer, risk, bot>>

AddNoTrade(quantity, price) ==
  /\ call = NoCall
  /\ NumFills < MaxFills
  /\ tracker' = add_no_trade(tracker, quantity, price).self
  /\ call' = [op |-> "add_no_trade", args |-> <<quantity, price>>,
              ret |-> add_no_trade(tracker, quantity, price).ret]
  /\ UNCHANGED <<config, analyzer, risk, bot>>

(* faulty variant: the simulation records the trade and reads the pair cost *)
SimulateYesTrade_recording(quantity, price) ==
  /\ call = NoCall
  /\ tracker' = add_yes_trade(tracker, quantity, price).self
  /\ call' = [op |-> "simulate_yes_trade", args |-> <<quantity, price>>,
              ret |-> simulate_yes_trade(tracker, quantity, price)]
  /\ UNCHANGED <<config, analyzer, risk, bot>>

SimulateYesTrade(quantity, price) ==
  /\ call = NoCall
  /\ call' = [op |-> "simulate_yes_trade", args |-> <<quantity, price>>,
              ret |-> simulate_yes_trade(tracker, quantity, price)]
  /\ UNCHANGED <<tracker, config, analyzer, risk, bot>>

SimulateNoTrade(quantity, price) ==
  /\ call = NoCall
  /\ call' = [op |-> "simulate_no_trade", args |-> <<quantity, price>>,
              ret |-> simulate_no_trade(tracker, quantity, price)]
  /\ UNCHANGED <<tracker, config, analyzer, risk, bot>>

Reset ==
  /\ call = NoCall
  /\ tracker # PositionTracker
  /\ tracker' = reset(tracker)
  /\ call' = [op |-> "reset", args |-> <<>>, ret |-> None]
  /\ UNCHANGED <<config, analyzer, risk, bot>>

(* faulty variant: the engine records the signal it returns *)
AnalyzeOpportunity_recording(yes_price, no_price) ==
  LET signal == analyze_opportunity(config, tracker, yes_price, no_price)
  IN  /\ call = NoCall
      /\ call' = [op |-> "analyze_opportunity", args |-> <<yes_price, no_price>>,
                  ret |-> signal]
      /\ tracker' = IF signal.kind # "TradeSignal" THEN tracker
                    ELSE IF signal.side = "YES"
                    THEN add_yes_trade(tracker, signal.quantity, signal.price).self
                    ELSE add_no_trade(tracker, signal.quantity, signal.price).self
      /\ UNCHANGED <<config, analyzer, risk, bot>>

AnalyzeOpportunity(yes_price, no_price) ==
  /\ call = NoCall
  /\ call' = [op |-> "analyze_opportunity", args |-> <<yes_price, no_price>>,
              ret |-> analyze_opportunity(config, tracker, yes_price, no_price)]
  /\ UNCHANGED <<tracker, config, analyzer, risk, bot>>

GetTradeRecommendation(yes_price, no_price) ==
  /\ call = NoCall
  /\ call' = [op |-> "get_trade_recommendation", args |-> <<yes_price, no_price>>,
              ret |-> get_trade_recommendation(config, tracker, yes_price, no_price)]
  /\ UNCHANGED <<tracker, config, analyzer, risk, bot>>

CalculateOptimalPrices ==
  /\ call = NoCall
  /\ call' = [op |-> "calculate_optimal_prices", args |-> <<>>,
              ret |-> calculate_optimal_prices(config, tracker)]
  /\ UNCHANGED <<tracker, config, analyzer, risk, bot>>

(* the caller has taken the result and goes on to its next call *)
Return ==
  /\ call # NoCall
  /\ call' = NoCall
  /\ UNCHANGED <<tracker, config, analyzer, risk, bot>>

Next ==
  \/ \E q \in Quantities, p \in Prices : AddYesTrade(q, p)
  \/ \E q \in Quantities, p \in Prices : AddNoTrade(q, p)
  \/ \E q \in SimQuantities, p \in SimPrices : SimulateYesTrade(q, p)
  \/ \E q \in SimQuantities, p \in SimPrices : SimulateNoTrade(q, p)
  \/ \E y \in Asks, n \in Asks : AnalyzeOpportunity(y, n)
  \/ \E y \in RecAsks, n \in RecAsks : GetTradeRecommendation(y, n)
  \/ CalculateOptimalPrices
  \/ Reset
  \/ Return

Spec == Init /\ [][Next]_vars

(* The engine asked about a ledger that holds the fills of an exchange.    *)
NextEngine ==
  \/ \E q \in FillQuantities, p \in FillPrices : AddYesTrade(q, p)
  \/ \E q \in FillQuantities, p \in FillPrices : AddNoTrade(q, p)
  \/ \E y \in TieAsks, n \in TieAsks : AnalyzeOpportunity(y, n)
  \/ Return

SpecEngine == Init /\ [][NextEngine]_vars

(* run_simulation: each tick asks the engine and records the signal it    *)
(* returns as a fill; the loop ends on a locked profit or at the exposure  *)
(* limit.                                                                  *)
InitSim ==
  /\ tracker = PositionTracker
  /\ config \in SimConfigs
  /\ call = NoCall
  /\ analyzer = PriceAnalyzer(WindowSize)
  /\ risk = DefaultRiskManager
  /\ bot = GabagoolBot

SimStopped ==
  \/ /\ RLe(config.min_profit_target, locked_profit(tracker))
     /\ RLe(Rat(8, 10), balance_ratio(tracker))
  \/ RLe(config.max_total_exposure, total_cost(tracker))

Tick(yes_price, no_price) ==
  /\ ~SimStopped
  /\ NumFills < MaxFills
  /\ AnalyzeOpportunity(yes_price, no_price)

ExecuteTrade ==
  /\ call.op = "analyze_opportunity"
  /\ call.ret.kind = "TradeSignal"
  /\ tracker' = IF call.ret.side = "YES"
                THEN add_yes_trade(tracker, call.ret.quantity, call.ret.price).self
                ELSE add_no_trade(tracker, call.ret.quantity, call.ret.price).self
  /\ call' = NoCall
  /\ UNCHANGED <<config, analyzer, risk, bot>>

NoTrade ==
  /\ call.op = "analyze_opportunity"
  /\ call.ret.kind # "TradeSignal"
  /\ call' = NoCall
  /\ UNCHANGED <<tracker, config, analyzer, risk, bot>>

NextSim ==
  \/ \E y \in SimAsks, n \in SimAsks : Tick(y, n)
  \/ ExecuteTrade
  \/ NoTrade

SpecSim == InitSim /\ [][NextSim]_vars

(* A caller of the price analyzer.                                         *)
AddPrice(yes_price, no_price) ==
  /\ call = NoCall
  /\ analyzer' = add_price(analyzer, yes_price, no_price)
  /\ call' = [op |-> "add_price", args |-> <<yes_price, no_price>>, ret |-> None]
  /\ UNCHANGED <<tracker, config, risk, bot>>

GetOpportunity(yes_price, no_price) ==
  /\ call = NoCall
  /\ analyzer' = get_opportunity(analyzer, yes_price, no_price).self
  /\ call' = [op |-> "get_opportunity", args |-> <<yes_price, no_price>>,
              ret |-> get_opportunity(analyzer, yes_price, no_price).ret]
  /\ UNCHANGED <<tracker, config, risk, bot>>

IsYesCheap(current_yes) ==
  /\ call = NoCall
  /\ call' = [op |-> "is_yes_cheap", args |-> <<current_yes>>,
              ret |-> is_yes_cheap(analyzer, current_yes)]
  /\ UNCHANGED <<tracker, config, analyzer, risk, bot>>

IsNoCheap(current_no) ==
  /\ call = NoCall
  /\ call' = [op |-> "is_no_cheap", args |-> <<current_no>>,
              ret |-> is_no_cheap(analyzer, current_no)]
  /\ UNCHANGED <<tracker, config, analyzer, risk, bot>>

AnalyzerReset ==
  /\ call = NoCall
  /\ analyzer.yes_prices # <<>>
  /\ analyzer' = analyzer_reset(analyzer)
  /\ call' = [op |-> "analyzer.reset", args |-> <<>>, ret |-> None]
  /\ UNCHANGED <<tracker, config, risk, bot>>

NextAnalyzer ==
  \/ \E o \in Observations : AddPrice(o[1], o[2])
  \/ \E o \in Observations : GetOpportunity(o[1], o[2])
  \/ \E p \in CheapPrices : IsYesCheap(p)
  \/ \E p \in CheapPrices : IsNoCheap(p)
  \/ AnalyzerReset
  \/ Return

SpecAnalyzer == Init /\ [][NextAnalyzer]_vars

(* A caller of the risk manager.                                           *)
InitRisk ==
  /\ tracker = PositionTracker
  /\ config \in Configs
  /\ call = NoCall
  /\ analyzer = PriceAnalyzer(WindowSize)
  /\ risk \in RiskManagers
  /\ bot = GabagoolBot

SetInitialCapital(capital) ==
  /\ call = NoCall
  /\ risk' = set_initial_capital(risk, capital)
  /\ call' = [op |-> "set_initial_capital", args |-> <<capital>>, ret |-> None]
  /\ UNCHANGED <<tracker, config, analyzer, bot>>

UpdateExposure(x) ==
  /\ call = NoCall
  /\ risk' = update_exposure(risk, x[1], x[2], x[3], x[4], x[5], x[6])
  /\ call' = [op |-> "update_exposure", args |-> x, ret |-> None]
  /\ UNCHANGED <<tracker, config, analyzer, bot>>

ShouldStopTrading ==
  /\ call = NoCall
  /\ call' = [op |-> "should_stop_trading", args |-> <<>>,
              ret |-> should_stop_trading(risk)]
  /\ UNCHANGED <<tracker, config, analyzer, risk, bot>>

CanAddPosition(new_cost, current_yes_qty, current_no_qty) ==
  /\ call = NoCall
  /\ call' = [op |-> "can_add_position",
              args |-> <<new_cost, current_yes_qty, current_no_qty>>,
              ret |-> can_add_position(risk, new_cost, current_yes_qty,
                                       current_no_qty)]
  /\ UNCHANGED <<tracker, config, analyzer, risk, bot>>

RiskReset ==
  /\ call = NoCall
  /\ risk' = risk_reset(risk)
  /\ call' = [op |-> "risk.reset", args |-> <<>>, ret |-> None]
  /\ UNCHANGED <<tracker, config, analyzer, bot>>

NextRisk ==
  \/ \E c \in Capitals : SetInitialCapital(c)
  \/ \E x \in Exposures : UpdateExposure(x)
  \/ ShouldStopTrading
  \/ \E c \in NewCosts, y \in HeldQuantities, n \in HeldQuantities :
        CanAddPosition(c, y, n)
  \/ RiskReset
  \/ Return

SpecRisk == InitRisk /\ [][NextRisk]_vars

----------------------------------------------------------------------------
(* Properties.                                                             *)

IsAnalyze == call.op = "analyze_opportunity"
IsAdd == call.op \in {"add_yes_trade", "add_no_trade"}
IsSimulate == call.op \in {"simulate_yes_trade", "simulate_no_trade"}
IsSignal == IsAnalyze /\ call.ret.kind = "TradeSignal"

(* the sum of the two sides' recorded cost, read from the fields *)
LedgerCost == RAdd(tracker.yes_position.total_cost, tracker.no_position.total_cost)
ExposureReached == RLe(config.max_total_exposure, LedgerCost)
ProfitLocked ==
  /\ RLe(config.min_profit_target, locked_profit(tracker))
  /\ RLe(Rat(4, 5), balance_ratio(tracker))
AskSum == RAdd(call.args[1], call.args[2])

OwnPosition(side) ==
  IF side = "YES" THEN tracker.yes_position ELSE tracker.no_position
OppositePosition(side) ==
  IF side = "YES" THEN tracker.no_position ELSE tracker.yes_position
Simulate(side, quantity, price) ==
  IF side = "YES" THEN simulate_yes_trade(tracker, quantity, price)
  ELSE simulate_no_trade(tracker, quantity, price)
Evaluate(side) ==
  IF side = "YES"
  THEN _evaluate_yes_buy(config, tracker, call.args[1], call.args[2])
  ELSE _evaluate_no_buy(config, tracker, call.args[1], call.args[2])
AskOf(side) == IF side = "YES" THEN call.args[1] ELSE call.args[2]

(* every fill in the ledger has a positive quantity and a positive price *)
AllFillsValid ==
  \A side \in {"YES", "NO"} :
     \A i \in 1..Len(OwnPosition(side).trades) :
        /\ RLt(Zero, OwnPosition(side).trades[i].quantity)
        /\ RLt(Zero, OwnPosition(side).trades[i].price)

(* C1: with total_cost >= max_total_exposure, analyze_opportunity returns  *)
(* None whatever the two asks are.                                         *)
C1_ExposureReachedReturnsNone ==
  (IsAnalyze /\ ExposureReached) => call.ret = None

(* an analysis at the exposure limit that no later rule would have stopped *)
C1_Witness ==
  /\ AllFillsValid
  /\ IsAnalyze
  /\ ExposureReached
  /\ ~ProfitLocked
  /\ RLt(AskSum, One)
  /\ RLt(Zero, call.args[1]) /\ RLt(Zero, call.args[2])

(* C2: add_yes_trade / add_no_trade with quantity <= 0 or price <= 0 fail  *)
(* with InvalidFill and leave both positions unchanged; every fill in the  *)
(* ledger has quantity > 0 and price > 0.                                  *)
C2_InvalidFillRejected ==
  /\ [][ ( /\ call'.op \in {"add_yes_trade", "add_no_trade"}
           /\ call.op = "none"
           /\ (RLe(call'.args[1], Zero) \/ RLe(call'.args[2], Zero)) )
         => (call'.ret = Raise("InvalidFill") /\ tracker' = tracker) ]_vars
  /\ []AllFillsValid

(* C3: simulate_yes_trade / simulate_no_trade leave the ledger as it was,  *)
(* and the value returned is the value the same call returns when made     *)
(* again on the ledger the call left behind.                               *)
C3_SimulateDoesNotMutate ==
  /\ [][ call'.op \in {"simulate_yes_trade", "simulate_no_trade"}
         => tracker' = tracker ]_vars
  /\ [](IsSimulate =>
          call.ret = Simulate(IF call.op = "simulate_yes_trade" THEN "YES" ELSE "NO",
                              call.args[1], call.args[2]))

(* a simulation on a ledger that holds fills, which would move the average *)
C3_Witness ==
  /\ AllFillsValid
  /\ call.op = "simulate_yes_trade"
  /\ RLt(Zero, tracker.yes_position.quantity)
  /\ RLt(Zero, call.args[1])
  /\ call.args[2] # average_price(tracker.yes_position)

(* C4: on each side average_price * quantity = total_cost, and             *)
(* average_price is 0 when the quantity is 0.                              *)
C4_AverageTimesQuantity ==
  \A side \in {"YES", "NO"} :
     /\ RMul(average_price(OwnPosition(side)), OwnPosition(side).quantity)
          = OwnPosition(side).total_cost
     /\ (OwnPosition(side).quantity = Zero
           => average_price(OwnPosition(side)) = Zero)

(* C4 on ledgers built from fills with positive quantity and price only:  *)
(* there the identity holds.                                               *)
C4_AverageTimesQuantityValidFills == AllFillsValid => C4_AverageTimesQuantity

C6_EngineDoesNotMutate ==
  [][ call'.op \in {"analyze_opportunity", "get_trade_recommendation",
                    "calculate_optimal_prices"}
      => tracker' = tracker ]_vars

(* the engine has returned a signal on a ledger that holds fills *)
C6_Witness == AllFillsValid /\ IsSignal /\ NumFills > 0

(* C7: with locked_profit >= min_profit_target and balance_ratio >= 0.8    *)
(* analyze_opportunity returns None; when one of the two fails, the        *)
(* exposure limit is not reached, the asks sum to less than 1 and a side   *)
(* is a candidate, a signal is returned.                                   *)
C7_ProfitLockedReturnsNone ==
  IsAnalyze =>
    /\ ProfitLocked => call.ret = None
    /\ ( /\ ~ProfitLocked
         /\ ~ExposureReached
         /\ RLt(AskSum, One)
         /\ \E side \in {"YES", "NO"} : Evaluate(side).kind = "TradeSignal"
         /\ \A side \in {"YES", "NO"} : Evaluate(side).kind # "raise" )
       => call.ret.kind = "TradeSignal"

(* the lock is what stops the engine: a candidate exists below the limits *)
C7_Witness ==
  /\ AllFillsValid
  /\ IsAnalyze
  /\ ProfitLocked
  /\ ~ExposureReached
  /\ RLt(AskSum, One)
  /\ Evaluate("YES").kind = "TradeSignal"

(* C8: with yes_ask + no_ask >= 1.0 analyze_opportunity returns None, so   *)
(* the asks of every returned signal sum to less than 1.0.                 *)
C8_NoEdgeReturnsNone ==
  IsAnalyze =>
    /\ RLe(One, AskSum) => call.ret = None
    /\ call.ret.kind = "TradeSignal" => RLt(AskSum, One)

(* asks summing to exactly 1.0 on a ledger where a side is a candidate *)
C8_Witness ==
  /\ AllFillsValid
  /\ IsAnalyze
  /\ AskSum = One
  /\ ~ExposureReached
  /\ ~ProfitLocked
  /\ Evaluate("YES").kind = "TradeSignal"

(* C9: a returned signal for side S carries the pair cost simulated for    *)
(* (S, signal.quantity, signal.price), and that is <= max_pair_cost.       *)
C9_ProjectedPairCostBounded ==
  IsSignal =>
    /\ call.ret.projected_pair_cost
         = Simulate(call.ret.side, call.ret.quantity, call.ret.price)
    /\ RLe(call.ret.projected_pair_cost, config.max_pair_cost)
    /\ call.ret.price = AskOf(call.ret.side)
    /\ call.ret.quantity
         = _calculate_quantity(config, tracker, AskOf(call.ret.side)).val

(* a signal is returned while the other side's simulated cost is too high *)
C9_Witness ==
  /\ AllFillsValid
  /\ IsSignal
  /\ call.ret.side = "NO"
  /\ _calculate_quantity(config, tracker, call.args[1]).kind = "value"
  /\ RLt(config.max_pair_cost,
         simulate_yes_trade(tracker,
                            _calculate_quantity(config, tracker, call.args[1]).val,
                            call.args[1]))

(* C10: when the side opposite to S holds quantity > 0, no signal for S    *)
(* has price >= 1 - opposite.average_price, and S is no candidate then     *)
(* even with a simulated pair cost within max_pair_cost; when the opposite *)
(* side holds nothing, a side with a budget and a simulated pair cost      *)
(* within max_pair_cost is a candidate.                                    *)
C10_ImpliedCeiling ==
  IsAnalyze =>
    /\ ( /\ call.ret.kind = "TradeSignal"
         /\ RLt(Zero, OppositePosition(call.ret.side).quantity) )
       => RLt(call.ret.price,
              RSub(One, average_price(OppositePosition(call.ret.side))))
    /\ \A side \in {"YES", "NO"} :
         LET q == _calculate_quantity(config, tracker, AskOf(side))
         IN  /\ ( /\ RLt(Zero, OppositePosition(side).quantity)
                  /\ RLe(RSub(One, average_price(OppositePosition(side))),
                         AskOf(side)) )
                => Evaluate(side).kind # "TradeSignal"
             /\ ( /\ OppositePosition(side).quantity = Zero
                  /\ q.kind = "value"
                  /\ RLt(Zero, q.val)
                  /\ RLe(Simulate(side, q.val, AskOf(side)), config.max_pair_cost) )
                => Evaluate(side).kind = "TradeSignal"

(* the ceiling alone rejects a side: its simulated pair cost is within     *)
(* max_pair_cost and the engine gets as far as evaluating it               *)
C10_Witness ==
  /\ AllFillsValid
  /\ IsAnalyze
  /\ ~ExposureReached /\ ~ProfitLocked /\ RLt(AskSum, One)
  /\ RLt(Zero, tracker.yes_position.quantity)
  /\ RLe(RSub(One, average_price(tracker.yes_position)), call.args[2])
  /\ _calculate_quantity(config, tracker, call.args[2]).kind = "value"
  /\ RLe(simulate_no_trade(tracker,
                           _calculate_quantity(config, tracker, call.args[2]).val,
                           call.args[2]),
         config.max_pair_cost)
  /\ (call.ret.kind = "TradeSignal" => call.ret.side = "YES")

(* C11: past the three stopping rules, with both sides a candidate the    *)
(* engine returns the one whose projected_pair_cost is lower by more than  *)
(* 0.001; otherwise the NO candidate when quantity_imbalance > 0, the YES  *)
(* candidate when it is < 0, and with an imbalance of exactly 0 the one    *)
(* with the lower ask.  One candidate alone is returned; none gives None.  *)
C11_TieBreak ==
  LET yes_signal == Evaluate("YES")
      no_signal == Evaluate("NO")
      margin == Rat(1, 1000)
  IN  ( /\ IsAnalyze
        /\ ~ExposureReached /\ ~ProfitLocked /\ RLt(AskSum, One)
        /\ yes_signal.kind # "raise" /\ no_signal.kind # "raise" )
      =>
      IF yes_signal.kind = "TradeSignal" /\ no_signal.kind = "TradeSignal"
      THEN IF RLess(yes_signal.projected_pair_cost,
                    RSub(no_signal.projected_pair_cost, margin))
           THEN call.ret = yes_signal
           ELSE IF RLess(no_signal.projected_pair_cost,
                         RSub(yes_signal.projected_pair_cost, margin))
           THEN call.ret = no_signal
           ELSE IF RLt(Zero, quantity_imbalance(tracker))
           THEN call.ret = no_signal
           ELSE IF RLt(quantity_imbalance(tracker), Zero)
           THEN call.ret = yes_signal
           ELSE /\ RLt(yes_signal.price, no_signal.price) => call.ret = yes_signal
                /\ RLt(no_signal.price, yes_signal.price) => call.ret = no_signal
      ELSE IF yes_signal.kind = "TradeSignal" THEN call.ret = yes_signal
      ELSE IF no_signal.kind = "TradeSignal" THEN call.ret = no_signal
      ELSE call.ret = None

(* YES is the cheaper candidate, but by no more than 0.001, and the ledger *)
(* holds more YES than NO: the engine returns the NO candidate             *)
C11_Witness ==
  /\ IsSignal
  /\ Evaluate("YES").kind = "TradeSignal" /\ Evaluate("NO").kind = "TradeSignal"
  /\ RLt(Evaluate("YES").projected_pair_cost, Evaluate("NO").projected_pair_cost)
  /\ RLt(Zero, quantity_imbalance(tracker))
  /\ call.ret.side = "NO"

(* C12: with max_trade_amount 10, max_total_exposure 1000 and             *)
(* max_pair_cost 0.99, the tick (0.40, 0.55) on an empty ledger gives a    *)
(* YES signal of quantity 25 with projected_pair_cost 0.40; with that      *)
(* signal recorded, on the tick (0.60, 0.38) YES is a candidate with       *)
(* quantity 10/0.60 and projected 0.48, NO is a candidate with quantity    *)
(* 10/0.38 and projected 0.78, and the engine returns the YES one.         *)
FirstTick == <<Rat(40, 100), Rat(55, 100)>>
SecondTick == <<Rat(60, 100), Rat(38, 100)>>
AfterFirstTick == add_yes_trade(PositionTracker, Rat(25, 1), Rat(40, 100)).self

C12_TwoTickTrace ==
  /\ (IsAnalyze /\ tracker = PositionTracker /\ call.args = FirstTick)
     => call.ret = TradeSignal("YES", Rat(40, 100), Rat(25, 1), Rat(40, 100))
  /\ (IsAnalyze /\ tracker = AfterFirstTick /\ call.args = SecondTick)
     => /\ Evaluate("YES") = TradeSignal("YES", Rat(60, 100),
                                        RDiv(Rat(10, 1), Rat(60, 100)), Rat(48, 100))
        /\ Evaluate("NO") = TradeSignal("NO", Rat(38, 100),
                                       RDiv(Rat(10, 1), Rat(38, 100)), Rat(78, 100))
        /\ call.ret = Evaluate("YES")

(* the second tick, asked of the ledger that the first tick's signal left *)
C12_Witness ==
  /\ IsSignal
  /\ tracker = AfterFirstTick
  /\ call.args = SecondTick
  /\ config \in SimConfigs

IsGetOpportunity == call.op = "get_opportunity"
Samples == <<analyzer.yes_prices, analyzer.no_prices, analyzer.pair_costs>>
(* the sequence xs with x put behind it, the oldest item making room at    *)
(* the capacity                                                            *)
Pushed(xs, x) ==
  Append(IF Len(xs) = analyzer.window_size THEN Tail(xs) ELSE xs, x)

(* C13: get_opportunity with yes_price + no_price >= 0.99 returns None and *)
(* leaves the three sample sets as they were; with a smaller sum it puts   *)
(* exactly one sample into each set, and the cheapness it reports is that  *)
(* of the sets with the sample in them.                                    *)
C13_GuardPrecedesObservation ==
  [][ (call.op = "none" /\ call'.op = "get_opportunity") =>
        LET yes_price == call'.args[1]
            no_price == call'.args[2]
        IN  IF RLe(Rat(99, 100), RAdd(yes_price, no_price))
            THEN call'.ret = None /\ Samples' = Samples
            ELSE /\ analyzer'.yes_prices = Pushed(analyzer.yes_prices, yes_price)
                 /\ analyzer'.no_prices = Pushed(analyzer.no_prices, no_price)
                 /\ analyzer'.pair_costs =
                       Pushed(analyzer.pair_costs, RAdd(yes_price, no_price))
                 /\ (call'.ret = None) <=>
                       /\ ~is_yes_cheap(analyzer', yes_price).is_cheap
                       /\ ~is_no_cheap(analyzer', no_price).is_cheap
                 /\ (call'.ret # None /\ call'.ret.side = "YES") =>
                       /\ is_yes_cheap(analyzer', yes_price).is_cheap
                       /\ call'.ret.discount = is_yes_cheap(analyzer', yes_price).discount
                 /\ (call'.ret # None /\ call'.ret.side = "NO") =>
                       /\ is_no_cheap(analyzer', no_price).is_cheap
                       /\ call'.ret.discount = is_no_cheap(analyzer', no_price).discount
    ]_vars

(* a call at the guard, with a sum of exactly 0.99, on an analyzer that    *)
(* holds samples                                                           *)
C13_Witness ==
  /\ IsGetOpportunity
  /\ RAdd(call.args[1], call.args[2]) = Rat(99, 100)
  /\ call.ret = None
  /\ Len(analyzer.yes_prices) = 4

IsCheapCall == call.op \in {"is_yes_cheap", "is_no_cheap"}
(* the samples that the side asked about retains *)
Retained ==
  IF call.op = "is_yes_cheap" THEN analyzer.yes_prices ELSE analyzer.no_prices
(* (avg - price) / avg over the retained samples, for avg # 0 *)
Discount(price) == RDiv(RSub(Mean(Retained), price), Mean(Retained))
DiscountReached(price) == RLe(Rat(15, 100), Discount(price))
(* a standard deviation of at least 0.05, as a variance of at least 0.0025 *)
VolatilityReached == RLe(Rat(25, 10000), Variance(Retained))

(* C14: with fewer than 5 retained samples is_yes_cheap / is_no_cheap      *)
(* return (price < 0.45, 0) whatever the average and the volatility are;   *)
(* with 5 or more the discount / volatility rule decides and 0.45 plays no *)
(* part.                                                                   *)
C14_FiveSamplesSwitchRule ==
  IsCheapCall =>
    IF Len(Retained) < 5
    THEN /\ call.ret.is_cheap <=> RLt(call.args[1], Rat(45, 100))
         /\ call.ret.discount = Zero
    ELSE call.ret.is_cheap <=>
           /\ Mean(Retained) # Zero
           /\ DiscountReached(call.args[1])
           /\ VolatilityReached

(* exactly 4 samples: cheap by the 0.45 rule although the discount is      *)
(* below the threshold                                                     *)
C14_Witness ==
  /\ IsCheapCall
  /\ Len(Retained) = 4
  /\ call.ret.is_cheap
  /\ Mean(Retained) # Zero
  /\ ~DiscountReached(call.args[1])

(* C15: with at least 5 retained samples, the side is cheap iff            *)
(* (avg - price) / avg >= cheap_threshold and its volatility is >=         *)
(* volatility_threshold, and that discount is returned; an average of 0    *)
(* gives (not cheap, 0).                                                   *)
C15_DiscountAndVolatility ==
  (IsCheapCall /\ Len(Retained) >= 5) =>
    IF Mean(Retained) = Zero
    THEN call.ret = Cheapness(FALSE, Zero)
    ELSE /\ call.ret.discount = Discount(call.args[1])
         /\ call.ret.is_cheap => (DiscountReached(call.args[1]) /\ VolatilityReached)
         /\ (DiscountReached(call.args[1]) /\ VolatilityReached) => call.ret.is_cheap
         /\ ~VolatilityReached => ~call.ret.is_cheap

(* the discount is reached and the volatility is not: not cheap *)
C15_Witness ==
  /\ IsCheapCall
  /\ Len(Retained) >= 5
  /\ Mean(Retained) # Zero
  /\ DiscountReached(call.args[1])
  /\ ~VolatilityReached
  /\ ~call.ret.is_cheap

(* the call just made recorded an observation *)
Recorded ==
  \/ call.op = "add_price"
  \/ IsGetOpportunity /\ RLt(RAdd(call.args[1], call.args[2]), Rat(99, 100))

(* C16: each of the three sample sets holds at most window_size samples    *)
(* and the three have the same length; a recorded observation goes behind  *)
(* the retained ones in each set and, at capacity, the oldest one leaves;  *)
(* reset empties the sets and no other call touches them.                  *)
C16_BoundedFifoWindow ==
  /\ [] ( /\ Len(analyzer.yes_prices) <= analyzer.window_size
          /\ Len(analyzer.no_prices) = Len(analyzer.yes_prices)
          /\ Len(analyzer.pair_costs) = Len(analyzer.yes_prices) )
  /\ [][ IF Recorded'
         THEN /\ analyzer'.yes_prices = Pushed(analyzer.yes_prices, call'.args[1])
              /\ analyzer'.no_prices = Pushed(analyzer.no_prices, call'.args[2])
              /\ analyzer'.pair_costs =
                    Pushed(analyzer.pair_costs, RAdd(call'.args[1], call'.args[2]))
         ELSE IF call'.op = "analyzer.reset"
         THEN Samples' = <<(<<>>), (<<>>), (<<>>)>>
         ELSE Samples' = Samples
     ]_vars

(* an observation recorded into a full window: the newest sample is last,  *)
(* and the window still holds window_size samples                          *)
C16_Witness ==
  /\ Recorded
  /\ Len(analyzer.yes_prices) = analyzer.window_size
  /\ analyzer.yes_prices[analyzer.window_size] = call.args[1]
  /\ analyzer.yes_prices[1] # call.args[1]
  /\ analyzer.pair_costs[1] # analyzer.pair_costs[analyzer.window_size]

IsShouldStop == call.op = "should_stop_trading"
LossLimit == RSub(Zero, risk.max_loss_per_window)
MaxLossTripped == RLt(risk.unrealized_pnl, LossLimit)
DrawdownTripped ==
  /\ RLt(Zero, risk.initial_capital)
  /\ RLt(risk.max_drawdown_pct,
         RDiv(RSub(Zero, risk.unrealized_pnl), risk.initial_capital))

(* C17: should_stop_trading does not stop on the max-loss rule at an       *)
(* unrealized_pnl of exactly -max_loss_per_window, and stops with the      *)
(* max-loss reason at anything below it, such as 0.01 below.               *)
C17_MaxLossBoundary ==
  IsShouldStop =>
    /\ risk.unrealized_pnl = LossLimit => call.ret.reason # "Max loss reached"
    /\ RLt(risk.unrealized_pnl, LossLimit)
         => call.ret = Decision(TRUE, "Max loss reached")
    /\ risk.unrealized_pnl = RSub(LossLimit, Rat(1, 100))
         => call.ret = Decision(TRUE, "Max loss reached")

(* exactly at the limit, with a drawdown that does not stop it either *)
C17_Witness ==
  /\ IsShouldStop
  /\ risk.unrealized_pnl = LossLimit
  /\ RLt(Zero, risk.initial_capital)
  /\ call.ret = Decision(FALSE, "")

(* C18: should_stop_trading stops iff unrealized_pnl < -max_loss_per_window *)
(* or initial_capital > 0 and -unrealized_pnl / initial_capital >           *)
(* max_drawdown_pct; the max-loss reason wins when both trip; with an       *)
(* initial_capital of 0 only the loss limit decides; (False, "") when       *)
(* neither trips; and the call changes nothing in the risk manager.         *)
C18_StopRule ==
  /\ [] ( IsShouldStop =>
            /\ call.ret.kind = "tuple"
            /\ call.ret.flag <=> (MaxLossTripped \/ DrawdownTripped)
            /\ MaxLossTripped => call.ret.reason = "Max loss reached"
            /\ (~MaxLossTripped /\ DrawdownTripped)
                 => call.ret.reason = "Max drawdown reached"
            /\ (~MaxLossTripped /\ ~DrawdownTripped) => call.ret = Decision(FALSE, "")
            /\ risk.initial_capital = Zero => (call.ret.flag <=> MaxLossTripped) )
  /\ [][ call'.op = "should_stop_trading" => risk' = risk ]_vars

(* both rules trip and the reason is the loss limit's *)
C18_Witness ==
  /\ IsShouldStop
  /\ MaxLossTripped
  /\ DrawdownTripped
  /\ call.ret = Decision(TRUE, "Max loss reached")

IsScenarioCapital ==
  /\ IsShouldStop
  /\ risk.initial_capital = Rat(1000, 1)
  /\ risk.max_drawdown_pct = Rat(10, 100)

(* C19 as stated: a RiskManager with initial_capital 1000, max_drawdown_pct *)
(* 0.10 and the constructor's defaults otherwise does not stop at an        *)
(* unrealized_pnl of -95 and stops with the drawdown reason at -105.        *)
C19_DrawdownScenario ==
  (IsScenarioCapital /\ risk.max_loss_per_window = DefaultRiskManager.max_loss_per_window)
  => /\ risk.unrealized_pnl = Rat(-95, 1) => call.ret = Decision(FALSE, "")
     /\ risk.unrealized_pnl = Rat(-105, 1)
          => call.ret = Decision(TRUE, "Max drawdown reached")

(* C19 amended: with initial_capital 1000 and max_drawdown_pct 0.10, a     *)
(* RiskManager whose max_loss_per_window is at least 105 does not stop at  *)
(* an unrealized_pnl of -95 and stops with the drawdown reason at -105;    *)
(* with the default max_loss_per_window of 50 it stops at both, with the   *)
(* max-loss reason.                                                        *)
C19_DrawdownScenarioAboveLossLimit ==
  IsScenarioCapital =>
    /\ RLe(Rat(105, 1), risk.max_loss_per_window)
         => /\ risk.unrealized_pnl = Rat(-95, 1) => call.ret = Decision(FALSE, "")
            /\ risk.unrealized_pnl = Rat(-105, 1)
                 => call.ret = Decision(TRUE, "Max drawdown reached")
    /\ risk.max_loss_per_window = DefaultRiskManager.max_loss_per_window
         => ( risk.unrealized_pnl \in {Rat(-95, 1), Rat(-105, 1)}
              => call.ret = Decision(TRUE, "Max loss reached") )

(* a drawdown of 0.105 stops a manager whose loss limit is not reached *)
C19_Witness ==
  /\ IsScenarioCapital
  /\ RLe(Rat(105, 1), risk.max_loss_per_window)
  /\ risk.unrealized_pnl = Rat(-105, 1)
  /\ call.ret = Decision(TRUE, "Max drawdown reached")

IsCanAdd == call.op = "can_add_position"
(* |current_yes_qty - current_no_qty| of the call *)
QuantityGap ==
  IF RLt(call.args[2], call.args[3]) THEN RSub(call.args[3], call.args[2])
  ELSE RSub(call.args[2], call.args[3])

(* C20: can_add_position returns (False, reason) iff |yes_qty - no_qty| >  *)
(* max_unhedged_exposure and (True, "") otherwise, whatever new_cost and   *)
(* the rest of the risk manager are, and changes nothing in it.            *)
C20_UnhedgedGate ==
  /\ [] ( IsCanAdd =>
            IF RLt(risk.max_unhedged_exposure, QuantityGap)
            THEN call.ret = Decision(FALSE, "Unhedged exposure too high")
            ELSE call.ret = Decision(TRUE, "") )
  /\ [][ call'.op = "can_add_position" => risk' = risk ]_vars

(* a large new_cost on quantities that differ by exactly the limit *)
C20_Witness ==
  /\ IsCanAdd
  /\ QuantityGap = risk.max_unhedged_exposure
  /\ RLt(risk.max_unhedged_exposure, call.args[1])
  /\ call.ret = Decision(TRUE, "")

(* C21: RiskManager.reset sets current_exposure and unrealized_pnl to 0    *)
(* and leaves initial_capital and the three limits as they were;           *)
(* initial_capital changes only in set_initial_capital.                    *)
C21_ResetKeepsInitialCapital ==
  [][ /\ call'.op = "risk.reset" =>
           /\ risk'.current_exposure = Zero
           /\ risk'.unrealized_pnl = Zero
           /\ risk'.initial_capital = risk.initial_capital
      /\ risk'.initial_capital # risk.initial_capital
           => call'.op = "set_initial_capital"
      /\ risk'.max_loss_per_window = risk.max_loss_per_window
      /\ risk'.max_drawdown_pct = risk.max_drawdown_pct
      /\ risk'.max_unhedged_exposure = risk.max_unhedged_exposure
    ]_vars

(* a reset manager that still has the capital it was given *)
C21_Witness ==
  /\ call.op = "risk.reset"
  /\ risk.initial_capital = Rat(1000, 1)
  /\ risk.current_exposure = Zero
  /\ risk.unrealized_pnl = Zero

----------------------------------------------------------------------------
(* The bot (bot.py): start(), _trading_loop(), _trade_market() and         *)
(* _execute_trade(), driven by the exchange (order books, order results),  *)
(* the market scanner and the clock.                                       *)

(* faulty variant: a max_pair_cost of exactly 1.0 is accepted *)
validate_above_one(cfg) ==
  IF cfg.private_key = "" THEN Raise("ValueError")
  ELSE IF cfg.funder_address = "" THEN Raise("ValueError")
  ELSE IF RLt(One, cfg.max_pair_cost) THEN Raise("ValueError")
  ELSE IF RLt(cfg.max_pair_cost, Rat(9, 10)) THEN Raise("ValueError")
  ELSE Value(TRUE)

(* BotConfig.validate *)
validate(cfg) ==
  IF cfg.private_key = "" THEN Raise("ValueError")
  ELSE IF cfg.funder_address = "" THEN Raise("ValueError")
  ELSE IF RLe(One, cfg.max_pair_cost) THEN Raise("ValueError")
  ELSE IF RLt(cfg.max_pair_cost, Rat(9, 10)) THEN Raise("ValueError")
  ELSE Value(TRUE)

BotConfig(private_key, funder_address, max_pair_cost) ==
  [private_key |-> private_key, funder_address |-> funder_address,
   max_pair_cost |-> max_pair_cost, max_trade_amount |-> Rat(10, 1),
   max_total_exposure |-> Rat(50, 1), min_profit_target |-> Rat(5, 1)]

(* environments of the bot: one that validates, and ones that do not *)
BotConfigs ==
  { BotConfig("0xkey", "0xfunder", Rat(99, 100)),
    BotConfig("0xkey", "0xfunder", One),
    BotConfig("0xkey", "0xfunder", Rat(101, 100)),
    BotConfig("0xkey", "0xfunder", Rat(89, 100)),
    BotConfig("", "0xfunder", Rat(99, 100)),
    BotConfig("0xkey", "", Rat(99, 100)) }

(* length of a market window in clock units; every tick of the trading     *)
(* loop takes one unit                                                     *)
MarketLength == 4

(* the markets the scanner lists, in the order of their end times *)
Markets == 1..2

(* what get_best_prices returns for the two tokens in one tick; None is    *)
(* an empty side of the book                                               *)
Quote(yes_bid, yes_ask, no_bid, no_ask) ==
  [yes_bid |-> yes_bid, yes_ask |-> yes_ask, no_bid |-> no_bid, no_ask |-> no_ask]

Quotes ==
  { Quote(None, Rat(1, 20), None, Rat(9, 10)),
    Quote(Rat(89, 100), Rat(9, 10), Rat(3, 100), Rat(1, 25)),
    Quote(Rat(1, 25), None, Rat(89, 100), Rat(9, 10)) }

(* `bid or 0' *)
OrZero(price) == IF price = None THEN Zero ELSE price

(* GabagoolBot._execute_trade: the ledger after the order; result is what  *)
(* place_limit_order returned                                              *)
_execute_trade(t, signal, result) ==
  IF result = None THEN t
  ELSE IF signal.side = "YES"
       THEN add_yes_trade(t, signal.quantity, signal.price).self
       ELSE add_no_trade(t, signal.quantity, signal.price).self

(* what one pass of the `while' body of _trade_market leaves: the ledger,  *)
(* the analyzer, the risk manager, how the pass ended ("continue",         *)
(* "risk_stop", "profit_lock" or "error") and whether it placed an order   *)
TickResult(t, a, r, outcome, ordered) ==
  [tracker |-> t, analyzer |-> a, risk |-> r, outcome |-> outcome,
   ordered |-> ordered]

(* the profit-lock check of _trade_market *)
profit_is_locked(cfg, t) ==
  /\ RLe(cfg.min_profit_target, locked_profit(t))
  /\ RLe(Rat(8, 10), balance_ratio(t))

(* _trading_loop after `await self._trade_market(market)': the three       *)
(* resets when it returned, the `except Exception' handler when it raised  *)
finish_window(t, a, r, raised) ==
  IF raised THEN [tracker |-> t, analyzer |-> a, risk |-> r]
  ELSE [tracker |-> reset(t), analyzer |-> analyzer_reset(a), risk |-> risk_reset(r)]

(* the element of a one-element set *)
Only(S) == CHOOSE x \in S : TRUE

(* one pass of the `while' body of _trade_market from the risk check on:   *)
(* r1 is the risk manager after update_exposure, opportunity what          *)
(* get_opportunity answers and signal what analyze_opportunity answers     *)
(* when it is asked                                                        *)
tick_from_risk_check(cfg, t, a, r1, opportunity, signal, result, stdout_ok) ==
  LET a1 == opportunity.self
      can_add == can_add_position(r1, RMul(signal.price, signal.quantity),
                                  t.yes_position.quantity, t.no_position.quantity)
  IN  IF should_stop_trading(r1).flag
      THEN TickResult(t, a, r1, "risk_stop", FALSE)
      ELSE IF opportunity.ret # None /\ signal.kind = "raise"
      THEN TickResult(t, a1, r1, "error", FALSE)
      ELSE
      LET ordered == /\ opportunity.ret # None
                     /\ signal.kind = "TradeSignal"
                     /\ can_add.flag
          t1 == IF ordered THEN _execute_trade(t, signal, result) ELSE t
      IN  IF ~stdout_ok THEN TickResult(t1, a1, r1, "error", ordered)
          ELSE IF profit_is_locked(cfg, t1)
          THEN TickResult(t1, a1, r1, "profit_lock", ordered)
          ELSE TickResult(t1, a1, r1, "continue", ordered)

(* one pass of the `while' body of _trade_market on the order books q;     *)
(* result is what place_limit_order returns if an order is placed, and     *)
(* stdout_ok whether _print_status can write.  The answers of the risk     *)
(* manager, the analyzer and the engine are each computed once.            *)
trade_tick(cfg, t, a, r, q, result, stdout_ok) ==
  IF q.yes_ask = None \/ q.no_ask = None
  THEN TickResult(t, a, r, "continue", FALSE)
  ELSE Only({ tick_from_risk_check(cfg, t, a, r1, opportunity, signal,
                                   result, stdout_ok) :
                r1 \in { update_exposure(r, t.yes_position.quantity,
                                         t.yes_position.total_cost,
                                         t.no_position.quantity,
                                         t.no_position.total_cost,
                                         OrZero(q.yes_bid), OrZero(q.no_bid)) },
                opportunity \in { get_opportunity(a, q.yes_ask, q.no_ask) },
                signal \in { analyze_opportunity(cfg, t, q.yes_ask, q.no_ask) } })

(* the outcomes of a pass that leave the `while' by `break' *)
StopOutcomes == {"risk_stop", "profit_lock"}

(* what place_limit_order can return: a response, or None when it failed *)
OrderResults == {Value("response"), None}

(* MarketScanner.get_next_market: the first listed market with more than   *)
(* two minutes remaining (index and remaining time), or None.  The market  *)
(* the bot traded last is still the first one while it has the time.       *)
get_next_market(b) ==
  IF b.market # 0 /\ b.remaining >= 2
  THEN [market |-> b.market, remaining |-> b.remaining]
  ELSE IF b.market + 1 \in Markets
  THEN [market |-> b.market + 1, remaining |-> MarketLength]
  ELSE None

InitBot ==
  /\ tracker = PositionTracker
  /\ config \in BotConfigs
  /\ call = NoCall
  /\ analyzer = PriceAnalyzer(50)
  /\ risk = DefaultRiskManager
  /\ bot = GabagoolBot

(* GabagoolBot.start up to the trading loop; connected is what             *)
(* client.connect() returns                                                *)
Start(connected) ==
  /\ bot.pc = "start"
  /\ bot' = IF validate(config).kind = "raise"
            THEN [bot EXCEPT !.pc = "returned", !.event = "invalid_config"]
            ELSE IF ~connected
            THEN [bot EXCEPT !.pc = "returned", !.event = "connect_failed"]
            ELSE [bot EXCEPT !.pc = "loop", !.connected = TRUE,
                             !.running = TRUE, !.event = "started"]
  /\ UNCHANGED <<tracker, config, call, analyzer, risk>>

(* _trading_loop: the scanner has a market, and _trade_market is entered *)
EnterMarket ==
  /\ bot.pc = "loop"
  /\ bot.running
  /\ get_next_market(bot) # None
  /\ bot' = [bot EXCEPT !.pc = "trading",
                        !.market = get_next_market(bot).market,
                        !.remaining = get_next_market(bot).remaining,
                        !.event = "enter", !.ordered = FALSE]
  /\ risk' = set_initial_capital(risk, config.max_total_exposure)
  /\ UNCHANGED <<tracker, config, call, analyzer>>

(* _trading_loop: the scanner has no market; the bot sleeps and asks again *)
NoMarket ==
  /\ bot.pc = "loop"
  /\ bot.running
  /\ get_next_market(bot) = None
  /\ bot' = [bot EXCEPT !.event = "no_market", !.ordered = FALSE]
  /\ UNCHANGED <<tracker, config, call, analyzer, risk>>

(* one pass of the `while' of _trade_market, one clock unit long *)
TradeTick(q, result) ==
  /\ bot.pc = "trading"
  /\ bot.remaining >= 1
  /\ \E res \in {trade_tick(config, tracker, analyzer, risk, q, result,
                              bot.stdout_ok)} :
     LET stop == res.outcome \in StopOutcomes
     IN  /\ tracker' = res.tracker
         /\ analyzer' = res.analyzer
         /\ risk' = res.risk
         /\ bot' = [bot EXCEPT
                      !.remaining = @ - 1,
                      !.pc = IF stop \/ bot.remaining = 1
                             THEN "final" ELSE "trading",
                      !.event = res.outcome,
                      !.ordered = res.ordered]
  /\ UNCHANGED <<config, call>>

(* _print_final_status, then the rest of the pass of _trading_loop: the    *)
(* resets, or the `except Exception' handler when the printing raised      *)
FinishWindow ==
  /\ bot.pc = "final"
  /\ LET w == finish_window(tracker, analyzer, risk, ~bot.stdout_ok)
     IN  /\ tracker' = w.tracker
         /\ analyzer' = w.analyzer
         /\ risk' = w.risk
  /\ bot' = [bot EXCEPT !.pc = "loop", !.ordered = FALSE,
                        !.stopped = IF bot.event \in StopOutcomes
                                    THEN @ \cup {bot.market} ELSE @,
                        !.event = IF bot.stdout_ok THEN "window_reset"
                                  ELSE "window_error"]
  /\ UNCHANGED <<config, call>>

(* the standard output is closed while a window is traded: every later     *)
(* print() raises OSError                                                  *)
StdoutCloses ==
  /\ bot.pc = "trading"
  /\ bot.stdout_ok
  /\ bot' = [bot EXCEPT !.stdout_ok = FALSE, !.event = "stdout_closed",
                        !.ordered = FALSE]
  /\ UNCHANGED <<tracker, config, call, analyzer, risk>>

NextBot ==
  \/ \E connected \in BOOLEAN : Start(connected)
  \/ EnterMarket
  \/ NoMarket
  \/ \E q \in Quotes, result \in OrderResults : TradeTick(q, result)
  \/ FinishWindow
  \/ StdoutCloses

SpecBot == InitBot /\ [][NextBot]_vars

----------------------------------------------------------------------------
(* Properties of the bot.                                                  *)

(* the state the three resets leave *)
WindowStateClean ==
  /\ tracker.yes_position = Position
  /\ tracker.no_position = Position
  /\ Len(analyzer.yes_prices) = 0
  /\ Len(analyzer.no_prices) = 0
  /\ Len(analyzer.pair_costs) = 0
  /\ risk.current_exposure = Zero
  /\ risk.unrealized_pnl = Zero

(* C22: every time _trade_market is entered the ledger has both positions  *)
(* empty with no fills, the analyzer holds no samples and the risk         *)
(* manager's current_exposure and unrealized_pnl are 0, whichever way      *)
(* trading of the previous window ended (risk stop, profit lock or error). *)
C22_WindowStartsClean == bot.event = "enter" => WindowStateClean

(* the same on the entries that follow windows whose trading returned:     *)
(* no print() has raised while the standard output is still open           *)
C22_WindowStartsCleanAfterReturn ==
  bot.event = "enter" /\ bot.stdout_ok => WindowStateClean

(* a window entered after one that traded and returned *)
C22_SecondWindowEntered ==
  /\ bot.event = "enter"
  /\ bot.stdout_ok
  /\ bot.stopped # {}
  /\ WindowStateClean

(* C24: after a tick of a market window on which should_stop_trading       *)
(* returned stop, or on which profit was locked (locked_profit >=          *)
(* min_profit_target with balance_ratio >= 0.8), the bot places no         *)
(* further order for that market.                                          *)
C24_NoOrderAfterStop == bot.ordered => bot.market \notin bot.stopped

(* within the window of the stopping tick no pass follows it *)
C24_StopLeavesWindow ==
  bot.event \in StopOutcomes => bot.pc = "final"

(* the two ways a tick stops a window *)
C24_RiskStopReached == bot.event = "risk_stop" /\ bot.stdout_ok
C24_ProfitLockReached ==
  /\ bot.event = "profit_lock"
  /\ bot.ordered
  /\ RLe(config.min_profit_target, locked_profit(tracker))

(* C25: a configuration with max_pair_cost >= 1.0 or < 0.9 is rejected by  *)
(* validate with an error, and start() then returns without connecting,    *)
(* without setting running, and without entering the trading loop or       *)
(* placing an order.                                                       *)
C25_InvalidConfigIsFatal ==
  (RLe(One, config.max_pair_cost) \/ RLt(config.max_pair_cost, Rat(9, 10)))
    => /\ validate(config) = Raise("ValueError")
       /\ ~bot.connected
       /\ ~bot.running
       /\ bot.pc \in {"start", "returned"}
       /\ bot.market = 0
       /\ ~bot.ordered

(* start() has returned on a max_pair_cost of exactly 1.0 *)
C25_Witness ==
  /\ config.max_pair_cost = One
  /\ bot.pc = "returned"
  /\ bot.event = "invalid_config"

----------------------------------------------------------------------------
(* Properties of the engine on asks in [0, 1] and of engine-driven runs.   *)

(* C23: for every ledger state and every pair of asks in [0, 1], an ask of *)
(* exactly 0 included, analyze_opportunity returns None or a TradeSignal;  *)
(* it never raises.                                                        *)
C23_AnalyzeNeverRaises ==
  IsAnalyze => call.ret.kind \in {"None", "TradeSignal"}

(* the same when both asks are positive *)
C23_AnalyzeNeverRaisesPositiveAsks ==
  IsAnalyze /\ RLt(Zero, call.args[1]) /\ RLt(Zero, call.args[2])
    => call.ret.kind \in {"None", "TradeSignal"}

(* the call on a YES ask of 0 that raised *)
C23_ZeroAskRaised ==
  /\ IsAnalyze
  /\ call.args[1] = Zero
  /\ call.ret = Raise("ZeroDivisionError")

(* A run of the engine in which every signal is recorded as a fill, as in  *)
(* the loop of run_simulation, with exposure limits that a few trades      *)
(* reach; the engine is asked again after the limit is reached.            *)
RunConfigs ==
  { [max_pair_cost |-> Rat(99, 100), max_trade_amount |-> Rat(10, 1),
     max_total_exposure |-> e, min_profit_target |-> Rat(5, 1)]
      : e \in {Rat(15, 1), Rat(25, 1)} }

(* asks of a run: those of the simulation and one far below them, on which *)
(* the engine turns to the side it does not hold yet                       *)
RunAsks == SimAsks \cup {Rat(1, 20)}

InitRun ==
  /\ tracker = PositionTracker
  /\ config \in RunConfigs
  /\ call = NoCall
  /\ analyzer = PriceAnalyzer(WindowSize)
  /\ risk = DefaultRiskManager
  /\ bot = GabagoolBot

NextRun ==
  \/ \E y \in RunAsks, n \in RunAsks : AnalyzeOpportunity(y, n)
  \/ ExecuteTrade
  \/ NoTrade

SpecRun == InitRun /\ [][NextRun]_vars

(* cost of a signal: price * quantity *)
SignalCost(signal) == RMul(signal.price, signal.quantity)

(* the budget of the next trade: min(max_trade_amount, what is left) *)
TradeBudget ==
  RMin(config.max_trade_amount, RSub(config.max_total_exposure, LedgerCost))

(* C26: in runs from the empty ledger in which every recorded fill is the  *)
(* signal just returned, total_cost never exceeds max_total_exposure, and  *)
(* the cost price * quantity of every signal is min(max_trade_amount,      *)
(* max_total_exposure - total_cost) at the time it is produced, which is   *)
(* > 0 and <= max_trade_amount.                                            *)
C26_SignalCostIsBudget ==
  /\ RLe(LedgerCost, config.max_total_exposure)
  /\ IsSignal =>
       /\ SignalCost(call.ret) = TradeBudget
       /\ RLt(Zero, SignalCost(call.ret))
       /\ RLe(SignalCost(call.ret), config.max_trade_amount)

(* a signal for the 5 that are left of an exposure limit of 15 *)
C26_Witness ==
  /\ IsSignal
  /\ NumFills = 1
  /\ SignalCost(call.ret) = Rat(5, 1)
  /\ RLt(SignalCost(call.ret), config.max_trade_amount)

(* C27: in such runs the ledger's pair_cost is <= max_pair_cost in every   *)
(* reachable state, hence < 1.0, and locked_profit is never negative.      *)
C27_PairCostBounded ==
  /\ RLe(pair_cost(tracker), config.max_pair_cost)
  /\ RLt(pair_cost(tracker), One)
  /\ RLe(Zero, locked_profit(tracker))

(* a ledger the engine filled on both sides *)
C27_Witness ==
  /\ RLt(Zero, tracker.yes_position.quantity)
  /\ RLt(Zero, tracker.no_position.quantity)
  /\ RLt(Zero, locked_profit(tracker))
  /\ RLe(pair_cost(tracker), config.max_pair_cost)

(* ceil(r) of a rational r >= 0 *)
Ceiling(r) == (r.n + r.d - 1) \div r.d

(* ceil(max_total_exposure / max_trade_amount) *)
MaxSignals ==
  Ceiling(RDiv(config.max_total_exposure, config.max_trade_amount))

(* C29: a run in which every signal is recorded produces finitely many     *)
(* signals: each recorded signal spends min(max_trade_amount, what is      *)
(* left), so that after at most ceil(max_total_exposure /                  *)
(* max_trade_amount) recorded signals total_cost has reached               *)
(* max_total_exposure, and every later analyze_opportunity returns None.   *)
C29_FinitelyManySignals ==
  /\ NumFills <= MaxSignals
  /\ LedgerCost = RMin(RMul(Rat(NumFills, 1), config.max_trade_amount),
                       config.max_total_exposure)
  /\ NumFills = MaxSignals => LedgerCost = config.max_total_exposure
  /\ IsAnalyze /\ NumFills = MaxSignals => call.ret = None

(* the engine asked again after the third signal of an exposure of 25 *)
C29_Witness ==
  /\ IsAnalyze
  /\ NumFills = 3
  /\ MaxSignals = 3
  /\ LedgerCost = Rat(25, 1)
  /\ call.ret = None

----------------------------------------------------------------------------
(* Properties of the ledger's profit figures and of simulation against     *)
(* recording.                                                              *)

(* every recorded fill has a price in (0, 1) *)
FillPricesInUnit ==
  \A side \in {"YES", "NO"} :
     \A i \in 1..Len(OwnPosition(side).trades) :
        /\ RLt(Zero, OwnPosition(side).trades[i].price)
        /\ RLt(OwnPosition(side).trades[i].price, One)

EqualQuantities == tracker.yes_position.quantity = tracker.no_position.quantity

(* C28: in every ledger state reachable by fills with price in (0, 1),     *)
(* min_potential_profit <= locked_profit <= max_potential_profit, and      *)
(* min_potential_profit = locked_profit exactly when the two sides hold    *)
(* equal quantities.                                                       *)
C28_ProfitOrdering ==
  FillPricesInUnit =>
    /\ RLe(min_potential_profit(tracker), locked_profit(tracker))
    /\ RLe(locked_profit(tracker), max_potential_profit(tracker))
    /\ (min_potential_profit(tracker) = locked_profit(tracker)) <=> EqualQuantities

(* the same on ledgers whose fills all have a positive quantity *)
C28_ProfitOrderingValidFills == AllFillsValid => C28_ProfitOrdering

(* a balanced and an unbalanced two-sided ledger *)
C28_BalancedLedger ==
  /\ AllFillsValid /\ FillPricesInUnit /\ NumFills = 2
  /\ EqualQuantities
  /\ RLt(Zero, locked_profit(tracker))
  /\ min_potential_profit(tracker) = locked_profit(tracker)
C28_UnbalancedLedger ==
  /\ AllFillsValid /\ FillPricesInUnit
  /\ RLt(Zero, min_quantity(tracker))
  /\ ~EqualQuantities
  /\ RLt(min_potential_profit(tracker), locked_profit(tracker))
  /\ RLt(locked_profit(tracker), max_potential_profit(tracker))

(* the ledger after recording a fill on a side *)
Recorded_fill(side, quantity, price) ==
  IF side = "YES" THEN add_yes_trade(tracker, quantity, price).self
  ELSE add_no_trade(tracker, quantity, price).self

SimulatedSide == IF call.op = "simulate_yes_trade" THEN "YES" ELSE "NO"

(* C30: for every ledger state, side S, quantity q > 0 and price p,        *)
(* simulate(S, q, p) is the ledger's pair_cost immediately after recording *)
(* that fill; and recording a fill on side S leaves the other side's       *)
(* quantity, total_cost and fill history unchanged.                        *)
C30_SimulateIsPairCostAfterFill ==
  /\ IsSimulate /\ RLt(Zero, call.args[1])
       => call.ret = pair_cost(Recorded_fill(SimulatedSide, call.args[1],
                                             call.args[2]))
  /\ \A q \in Quantities, p \in Prices :
       /\ add_yes_trade(tracker, q, p).self.no_position = tracker.no_position
       /\ add_no_trade(tracker, q, p).self.yes_position = tracker.yes_position

(* the same on ledgers whose fills all have a positive quantity *)
C30_SimulateIsPairCostAfterFillValidFills ==
  AllFillsValid => C30_SimulateIsPairCostAfterFill

(* a simulation of a positive quantity on a two-sided ledger *)
C30_SimulatedOnLedger ==
  /\ IsSimulate /\ RLt(Zero, call.args[1])
  /\ AllFillsValid /\ NumFills = 2
  /\ RLt(Zero, min_quantity(tracker))
  /\ call.ret = pair_cost(Recorded_fill(SimulatedSide, call.args[1], call.args[2]))
  /\ call.ret # pair_cost(tracker)

====
